---- MODULE Spec2Model ----
(***************************************************************************)
(* SysImpactCV: attack policies (sysimpactcv/attacks.py) applied once per  *)
(* simulation step, and the scenario runner (sysimpactcv/runner.py) that   *)
(* drives the mode x seed loop and owns the TraCI session.                 *)
(*                                                                         *)
(* Two specifications:                                                     *)
(*   Spec        one run of one policy function, called once per step with *)
(*               a fixed argument set, against an arbitrary evolution of   *)
(*               the live-vehicle set, positions, speeds and collisions.   *)
(*   RunnerSpec  runner.main(): configuration, session open/close, the     *)
(*               step loop and the dispatch of the configured policy.      *)
(***************************************************************************)
EXTENDS Integers, Sequences, FiniteSets, TLC

VARIABLES
    live,        \* traci.vehicle.getIDList() of the current step (a set)
    pos,         \* traci.vehicle.getLanePosition, per vehicle
    speed,       \* traci.vehicle.getSpeed, per vehicle
    lane,        \* traci.vehicle.getLaneID, per vehicle
    accel,       \* traci.vehicle.getAcceleration, per vehicle
    collisions,  \* traci.simulation.getCollisions() of the current step
    time,        \* traci.simulation.getTime(), counted in steps
    cmds,        \* vehicle commands sent since the last step advance
    state,       \* the AttackState dict handed to the policy
    err,         \* the exception that ended the run, or "none"
    calls,       \* sub-policies a policy called since the last step advance
    unconfirmed, \* vehicles commanded since the last advance whose presence
                 \* in the live set the policy had not tested
    pc,          \* position of the driver / of main()
    policy,      \* Spec: the policy function under drive
    params,      \* Spec: its arguments
    cfg,         \* RunnerSpec: the parsed scenario.ini
    run,         \* RunnerSpec: <<index into modes, index into seeds>>
    sessions,    \* RunnerSpec: TraCI sessions currently open
    started,     \* RunnerSpec: traci.start calls made so far
    invoked,     \* RunnerSpec: policy bodies entered since the last advance
    rows,        \* RunnerSpec: det_rows, brake_rows, coll_rows of the run
    step_counter,\* RunnerSpec: STEP_COUNTER
    written      \* RunnerSpec: the tables handed to to_csv when the run just
                 \* closed was persisted (empty while a run is open)

vars == <<live, pos, speed, lane, accel, collisions, time, cmds, state, err,
          calls, unconfirmed, pc, policy, params, cfg, run, sessions, started,
          invoked, rows, step_counter, written>>

simVars == <<live, pos, speed, lane, accel, collisions, time>>
auditVars == <<calls, unconfirmed>>
runnerVars == <<cfg, run, sessions, started, invoked, rows, step_counter, written>>

---------------------------------------------------------------------------
\* Bounds of the model.
MaxPos == 2
MaxSpeed == 2
MaxColl == 1
MaxTime == 3

Vehicles == {"ego", "v1", "v2"}
VehOrder == <<"ego", "v1", "v2">>
Positions == 0..MaxPos
Speeds == 0..MaxSpeed

\* Vehicle type ids, as character sequences so that Python's substring test
\* `target_type in getTypeID(vid)` is computed and not assumed.
TypeID == [v \in Vehicles |->
             CASE v = "ego" -> <<"C", "A", "V">>
               [] v = "v1"  -> <<"H", "D", "V">>
               [] v = "v2"  -> <<"x", "C", "A", "V">>]

Contains(sub, s) ==
    \E i \in 1..(Len(s) + 1) :
        /\ i + Len(sub) - 1 <= Len(s)
        /\ \A j \in 1..Len(sub) : s[i + j - 1] = sub[j]

IDList == SelectSeq(VehOrder, LAMBDA v : v \in live)

Abs(x) == IF x < 0 THEN -x ELSE x

\* Optional arguments: Python None, a str, or a list of str.
None == [kind |-> "none", val |-> <<>>]
Str(s) == [kind |-> "str", val |-> s]
List(l) == [kind |-> "list", val |-> l]

---------------------------------------------------------------------------
\* AttackState: `state = {}` and the key 'attack_success', which holds a bool
\* for emergency_brake and a dict vehicle -> bool for rear_end_collision.
\* map_keys is the key set of that dict, map_true the keys whose value is True.
\* The key 'slowing_vehicles' of vsl_control holds a dict vehicle -> target
\* speed, kept as a set of <<vehicle, target>> pairs.
EmptyState == [has |-> FALSE, attack_success |-> FALSE,
               map_keys |-> {}, map_true |-> {},
               has_slowing |-> FALSE, slowing_vehicles |-> {}]

\* What a policy call leaves behind: the state, the commands the session
\* accepted, the exception it raised (if any), the sub-policies it called,
\* the vehicle ids it found in traci.vehicle.getIDList() (confirmed) and the
\* vehicles it commanded without having found them there (unconfirmed).
Acc(st, cs) == [state |-> st, cmds |-> cs, err |-> "none", calls |-> <<>>,
                confirmed |-> {}, unconfirmed |-> {}]

\* `vid in traci.vehicle.getIDList()` held, or vid was taken from that list.
Confirm(acc, vids) == [acc EXCEPT !.confirmed = @ \cup vids]

TraCIError == "TraCIException: vehicle is not known"

\* A vehicle command: a is the first numeric argument, b / den the second
\* (durations are quotients of two numbers and are kept exact).
Cmd(op, vid, a, b, den) == [op |-> op, vid |-> vid, a |-> a, b |-> b, den |-> den]

\* traci.vehicle.<setter>(vid, ...): the engine rejects a command for a
\* vehicle id that is not in the simulation, and the call raises.
Issue(acc, c) ==
    IF acc.err # "none" THEN acc
    ELSE LET a == IF c.vid \in acc.confirmed THEN acc
                  ELSE [acc EXCEPT !.unconfirmed = @ \cup {c.vid}]
         IN  IF c.vid \notin live THEN [a EXCEPT !.err = TraCIError]
             ELSE [a EXCEPT !.cmds = Append(@, c)]

\* traci.vehicle.getSpeed(vid) raises for an unknown vehicle likewise.
ReadVeh(acc, vid) ==
    IF acc.err # "none" THEN acc
    ELSE IF vid \notin live THEN [acc EXCEPT !.err = TraCIError]
    ELSE acc

---------------------------------------------------------------------------
\* emergency_brake (sysimpactcv/attacks.py)

\* state.setdefault('attack_success', False)
SetDefaultFlag(st) ==
    IF st.has THEN st ELSE [st EXCEPT !.has = TRUE, !.attack_success = FALSE]

\* The vehicle whose speed sizes the stop ramp: the literal 'ego'.
RampSpeedVehicle(vehicle_id) == "ego"

emergency_brake(st, vehicle_id, stop_position, emergency_deceleration) ==
    LET a0 == Acc(SetDefaultFlag(st), <<>>)
    IN  IF a0.state.attack_success THEN a0
        ELSE IF vehicle_id \in live THEN
            IF pos[vehicle_id] >= stop_position THEN
                LET a1 == Issue(Confirm(a0, {vehicle_id}), Cmd("setSpeedMode", vehicle_id, 0, 0, 1))
                    a2 == Issue(a1, Cmd("setLaneChangeMode", vehicle_id, 0, 0, 1))
                    src == RampSpeedVehicle(vehicle_id)
                    a3 == ReadVeh(a2, src)
                    a4 == IF a3.err = "none" /\ emergency_deceleration = 0
                          THEN [a3 EXCEPT !.err = "ZeroDivisionError"]
                          ELSE a3
                    a5 == IF a4.err # "none" THEN a4
                          ELSE Issue(a4, Cmd("slowDown", vehicle_id, 0,
                                             speed[src], Abs(emergency_deceleration)))
                IN  IF a5.err # "none" THEN a5
                    ELSE [a5 EXCEPT !.state.attack_success = TRUE]
            ELSE a0
        ELSE a0

\* emergency_brake of the cookie-cutter template (cookie-cutter/attacks.py):
\* no deceleration argument, an immediate setSpeed(0), and an else branch
\* that records completion when the vehicle is absent.
cc_emergency_brake(st, vehicle_id, stop_position) ==
    LET a0 == Acc(SetDefaultFlag(st), <<>>)
    IN  IF a0.state.attack_success THEN a0
        ELSE IF vehicle_id \in live THEN
            IF pos[vehicle_id] >= stop_position THEN
                LET a1 == Issue(Confirm(a0, {vehicle_id}), Cmd("setSpeedMode", vehicle_id, 0, 0, 1))
                    a2 == Issue(a1, Cmd("setLaneChangeMode", vehicle_id, 0, 0, 1))
                    a3 == Issue(a2, Cmd("setSpeed", vehicle_id, 0, 0, 1))
                IN  IF a3.err # "none" THEN a3
                    ELSE [a3 EXCEPT !.state.attack_success = TRUE]
            ELSE a0
        ELSE [a0 EXCEPT !.state.attack_success = TRUE]

---------------------------------------------------------------------------
\* rear_end_collision (sysimpactcv/attacks.py)

DefaultMode == -1

\* success_map = state.setdefault('attack_success', {})
SetDefaultMap(st) ==
    IF st.has THEN st ELSE [st EXCEPT !.has = TRUE, !.map_keys = {}, !.map_true = {}]

\* Mutant of SetDefaultEntry: `success_map[vid] = False` in place of setdefault.
ResetEntry(st, vid) ==
    [st EXCEPT !.map_keys = @ \cup {vid}, !.map_true = @ \ {vid}]

\* success_map.setdefault(vid, False)
SetDefaultEntry(st, vid) == [st EXCEPT !.map_keys = @ \cup {vid}]

\* The list of vehicles to attack: the explicit ids when given (a str is one
\* id), else the live vehicles whose type id contains target_type.
TargetList(target_vehicles, target_type) ==
    IF target_vehicles.kind = "str" THEN <<target_vehicles.val>>
    ELSE IF target_vehicles.kind = "list" THEN target_vehicles.val
    ELSE SelectSeq(IDList, LAMBDA v : Contains(target_type.val, TypeID[v]))

\* Index of the first collision report whose collider is vid, 0 if none.
FirstCollision(vid) ==
    LET hits == {i \in 1..Len(collisions) : collisions[i].collider = vid}
    IN  IF hits = {} THEN 0
        ELSE CHOOSE i \in hits : \A j \in hits : i <= j

\* for v in (vid, victim): the four halting commands on one vehicle
Halt(acc, v) ==
    Issue(Issue(Issue(Issue(acc,
        Cmd("setAcceleration", v, 0, 0, 1)),
        Cmd("setSpeed", v, 0, 0, 1)),
        Cmd("setSpeedMode", v, DefaultMode, 0, 1)),
        Cmd("setLaneChangeMode", v, DefaultMode, 0, 1))

\* One iteration of `for vid in vehicles`.
RearEndOne(acc, vid, aggressive_accel) ==
    LET a0 == [acc EXCEPT !.state = SetDefaultEntry(@, vid)]
    IN  IF vid \in a0.state.map_true THEN a0
        ELSE IF vid \notin live THEN [a0 EXCEPT !.state.map_true = @ \cup {vid}]
        ELSE
            LET a1 == Issue(Confirm(a0, {vid}), Cmd("setSpeedMode", vid, 0, 0, 1))
                a2 == Issue(a1, Cmd("setLaneChangeMode", vid, 0, 0, 1))
                a3 == Issue(a2, Cmd("setAcceleration", vid, aggressive_accel, 1, 1))
                h  == FirstCollision(vid)
            IN  IF h = 0 THEN a3
                ELSE
                    LET a4 == Halt(Halt(a3, vid), collisions[h].victim)
                    IN  IF a4.err # "none" THEN a4
                        ELSE [a4 EXCEPT !.state.map_true = @ \cup {vid}]

RECURSIVE RearEndLoop(_, _, _, _)
RearEndLoop(acc, vehicles, i, aggressive_accel) ==
    IF i > Len(vehicles) \/ acc.err # "none" THEN acc
    ELSE RearEndLoop(RearEndOne(acc, vehicles[i], aggressive_accel),
                     vehicles, i + 1, aggressive_accel)

NeitherError == "ValueError: Must provide either target_vehicles or target_type"

\* The selection check at the head of rear_end_collision: "" when accepted.
SelectionError(target_vehicles, target_type) ==
    IF target_vehicles.kind = "none" /\ target_type.kind = "none"
    THEN NeitherError ELSE "none"

rear_end_collision(st, aggressive_accel, target_vehicles, target_type) ==
    IF SelectionError(target_vehicles, target_type) # "none"
    THEN [Acc(st, <<>>) EXCEPT !.err = SelectionError(target_vehicles, target_type)]
    ELSE RearEndLoop(Acc(SetDefaultMap(st), <<>>),
                     TargetList(target_vehicles, target_type), 1, aggressive_accel)

---------------------------------------------------------------------------
\* lane_closure (sysimpactcv/attacks.py)

\* 'CAV' in traci.vehicle.getTypeID(vid)
IsCAV(v) == Contains(<<"C", "A", "V">>, TypeID[v])

\* Keyword arguments as a set of <<name, value>> pairs; a parameter that is
\* not passed takes its default.
KwGet(kw, name, default) ==
    IF \E p \in kw : p[1] = name THEN (CHOOSE p \in kw : p[1] = name)[2]
    ELSE default

\* The parameters of lane_closure with their defaults (def line).
LaneClosureArgs(kw) ==
    [lane_id       |-> KwGet(kw, "lane_id", "E0_0"),
     merge_to_lane |-> KwGet(kw, "merge_to_lane", 1),
     detection_min |-> KwGet(kw, "detection_min", 3000),
     detection_max |-> KwGet(kw, "detection_max", 3500)]

\* Mutant of InDetection: the lower end of the detection zone is left out.
AfterDetectionMin(p, detection_min, detection_max) ==
    detection_min < p /\ p < detection_max

\* detection_min <= pos < detection_max
InDetection(p, detection_min, detection_max) ==
    detection_min <= p /\ p < detection_max

\* One iteration of `for vid in traci.vehicle.getIDList()`.
LaneClosureOne(acc, vid, a) ==
    IF ~IsCAV(vid) THEN acc
    ELSE IF lane[vid] = a.lane_id THEN
        IF InDetection(pos[vid], a.detection_min, a.detection_max)
        THEN Issue(acc, Cmd("changeLane", vid, a.merge_to_lane, 2, 1))
        ELSE IF pos[vid] >= a.detection_max
        THEN Issue(Issue(acc, Cmd("setSpeed", vid, 0, 0, 1)),
                   Cmd("changeLane", vid, a.merge_to_lane, 2, 1))
        ELSE acc
    ELSE Issue(acc, Cmd("setSpeed", vid, -1, 0, 1))

RECURSIVE LaneClosureLoop(_, _, _, _)
LaneClosureLoop(acc, ids, i, a) ==
    IF i > Len(ids) \/ acc.err # "none" THEN acc
    ELSE LaneClosureLoop(LaneClosureOne(Confirm(acc, {ids[i]}), ids[i], a), ids, i + 1, a)

lane_closure(st, kw) == LaneClosureLoop(Acc(st, <<>>), IDList, 1, LaneClosureArgs(kw))

---------------------------------------------------------------------------
\* vsl_control (sysimpactcv/attacks.py)

\* mph -> m/s is the factor 0.44704 = MphNum / MphDen. The speeds handed to
\* slowDown and setMaxSpeed by the speed-limit policies are kept exact, as
\* whole numbers of 1/MphDen m/s.
MphNum == 1397
MphDen == 3125

\* A speed read from the session (whole m/s), in units of 1/MphDen m/s.
Mps(x) == x * MphDen

\* Mutant of MphToMps: the mph figure is taken as m/s.
MphAsMps(mph) == mph * MphDen

\* target_speed = vsl_mph * 0.44704, in units of 1/MphDen m/s.
MphToMps(mph) == mph * MphNum

\* default_speed_mps = 55.56, in units of 1/MphDen m/s.
DefaultSpeedMps == (5556 * MphDen) \div 100

\* max_deceleration_m_s2 = -3.0
DefaultMaxDecel == -3

\* Mutant of InZone: every position counts as inside the zone.
AnyPosition(p, zone_min, zone_max) == TRUE

\* zone_min < pos < zone_max
InZone(p, zone_min, zone_max) == zone_min < p /\ p < zone_max

\* Mutant of DecelTime: the division without abs().
SignedDecelTime(curr_speed, target_speed, max_decel) ==
    [b |-> curr_speed - target_speed, den |-> MphDen * max_decel]

\* decel_time = (curr_speed - target_speed) / abs(max_deceleration_m_s2), as
\* the quotient b / den of whole numbers (speeds in 1/MphDen m/s).
DecelTime(curr_speed, target_speed, max_decel) ==
    [b |-> curr_speed - target_speed, den |-> MphDen * Abs(max_decel)]

\* sl = state.setdefault('slowing_vehicles', {})
SetDefaultSlowing(st) ==
    IF st.has_slowing THEN st
    ELSE [st EXCEPT !.has_slowing = TRUE, !.slowing_vehicles = {}]

\* sl[vid] = target_speed
PutEntry(sl, vid, target_speed) == {p \in sl : p[1] # vid} \cup {<<vid, target_speed>>}

\* Mutant of PopEntry: the entry is left in the tracker.
KeepEntry(sl, vid) == sl

\* sl.pop(vid, None)
PopEntry(sl, vid) == {p \in sl : p[1] # vid}

\* The keys of the tracker.
Keys(sl) == {p[1] : p \in sl}

\* One iteration of `for vid in traci.vehicle.getIDList()`; a holds the
\* arguments of the call and the converted target speed.
VslOne(acc, vid, a) ==
    IF ~IsCAV(vid) THEN acc
    ELSE IF InZone(pos[vid], a.zone_min, a.zone_max) THEN
        IF Mps(speed[vid]) > a.target_speed THEN
            LET t  == DecelTime(Mps(speed[vid]), a.target_speed, a.max_deceleration_m_s2)
                a1 == Issue(acc, Cmd("slowDown", vid, a.target_speed, t.b, t.den))
            IN  [a1 EXCEPT !.state.slowing_vehicles = PutEntry(@, vid, a.target_speed)]
        ELSE Issue(acc, Cmd("setMaxSpeed", vid, a.target_speed, 0, 1))
    ELSE
        LET a1 == Issue(acc, Cmd("setMaxSpeed", vid, a.default_speed_mps, 0, 1))
        IN  [a1 EXCEPT !.state.slowing_vehicles = PopEntry(@, vid)]

RECURSIVE VslLoop(_, _, _, _)
VslLoop(acc, ids, i, a) ==
    IF i > Len(ids) \/ acc.err # "none" THEN acc
    ELSE VslLoop(VslOne(Confirm(acc, {ids[i]}), ids[i], a), ids, i + 1, a)

vsl_control(st, vsl_mph, zone_min, zone_max, default_speed_mps, max_deceleration_m_s2) ==
    VslLoop(Acc(SetDefaultSlowing(st), <<>>), IDList, 1,
            [target_speed |-> MphToMps(vsl_mph),
             zone_min |-> zone_min, zone_max |-> zone_max,
             default_speed_mps |-> default_speed_mps,
             max_deceleration_m_s2 |-> max_deceleration_m_s2])

---------------------------------------------------------------------------
\* set_target_speed (sysimpactcv/attacks.py)

NeitherSpeedError == "ValueError: Must provide target_vehicles or target_type"

\* One iteration of `for vid in vids`; speeds in units of 1/MphDen m/s.
TargetSpeedOne(acc, vid, target_speed_mps, accel_rate_m_s2) ==
    IF vid \notin live THEN acc
    ELSE
        LET a1 == Issue(Confirm(acc, {vid}), Cmd("setSpeedMode", vid, 0, 0, 1))
            a2 == Issue(a1, Cmd("setLaneChangeMode", vid, 0, 0, 1))
            curr == speed[vid]
            t  == DecelTime(Mps(curr), Mps(target_speed_mps), accel_rate_m_s2)
            a3 == IF curr < target_speed_mps
                  THEN Issue(a2, Cmd("setAcceleration", vid, accel_rate_m_s2, 1, 1))
                  ELSE IF curr > target_speed_mps /\ accel_rate_m_s2 # 0
                  THEN Issue(a2, Cmd("slowDown", vid, Mps(target_speed_mps), t.b, t.den))
                  ELSE a2
        IN  Issue(a3, Cmd("setMaxSpeed", vid, Mps(target_speed_mps), 0, 1))

RECURSIVE TargetSpeedLoop(_, _, _, _, _)
TargetSpeedLoop(acc, vids, i, target_speed_mps, accel_rate_m_s2) ==
    IF i > Len(vids) \/ acc.err # "none" THEN acc
    ELSE TargetSpeedLoop(TargetSpeedOne(acc, vids[i], target_speed_mps, accel_rate_m_s2),
                         vids, i + 1, target_speed_mps, accel_rate_m_s2)

set_target_speed(st, target_speed_mps, accel_rate_m_s2, target_vehicles, target_type) ==
    IF target_vehicles.kind = "none" /\ target_type.kind = "none"
    THEN [Acc(st, <<>>) EXCEPT !.err = NeitherSpeedError]
    ELSE TargetSpeedLoop(Acc(st, <<>>), TargetList(target_vehicles, target_type), 1,
                         target_speed_mps, accel_rate_m_s2)

---------------------------------------------------------------------------
\* rsu_spoofing and _vsl_step (sysimpactcv/attacks.py)

\* A sub-policy is called.
Enter(acc, fn) == [acc EXCEPT !.calls = Append(@, fn)]

\* _vsl_step(vehicle_ids, target_mph): for vid in vehicle_ids: setMaxSpeed
RECURSIVE vsl_step(_, _, _, _)
vsl_step(acc, vehicle_ids, i, target_mph) ==
    IF i > Len(vehicle_ids) \/ acc.err # "none" THEN acc
    ELSE vsl_step(Issue(acc, Cmd("setMaxSpeed", vehicle_ids[i], MphToMps(target_mph), 0, 1)),
                  vehicle_ids, i + 1, target_mph)

\* Mutant of Active: the start time belongs to the entry as well.
ActiveFromStart(entry, cur_t) == entry[1] <= cur_t /\ cur_t <= entry[2]

\* if t0 < cur_t <= t1, for a schedule entry <<t0, t1, mph>>
Active(entry, cur_t) == entry[1] < cur_t /\ cur_t <= entry[2]

\* for t0, t1, mph in vsl_sched: if t0 < cur_t <= t1: _vsl_step(vids, mph)
RECURSIVE ScheduleLoop(_, _, _, _, _)
ScheduleLoop(acc, vsl_sched, i, vids, cur_t) ==
    IF i > Len(vsl_sched) \/ acc.err # "none" THEN acc
    ELSE ScheduleLoop(IF Active(vsl_sched[i], cur_t)
                      THEN vsl_step(Enter(acc, "_vsl_step"), vids, 1, vsl_sched[i][3])
                      ELSE acc,
                      vsl_sched, i + 1, vids, cur_t)

\* Mutant of ClosureDue: the closure starts one step late.
ClosureLate(cur_t, lane_close_t) == cur_t > lane_close_t

\* if cur_t >= lane_close_t
ClosureDue(cur_t, lane_close_t) == cur_t >= lane_close_t

\* The call at simulation time cur_t (traci.simulation.getTime()).
RsuAt(st, cur_t, vsl_sched, lane_close_t, zone, lc_kwargs) ==
    LET vids == SelectSeq(IDList, LAMBDA v : IsCAV(v) /\ InZone(pos[v], zone[1], zone[2]))
        a0 == Confirm(Acc(st, <<>>), {vids[i] : i \in 1..Len(vids)})
        a1 == ScheduleLoop(a0, vsl_sched, 1, vids, cur_t)
    IN  IF a1.err = "none" /\ ClosureDue(cur_t, lane_close_t)
        THEN LaneClosureLoop(Enter(a1, "lane_closure"), IDList, 1, LaneClosureArgs(lc_kwargs))
        ELSE a1

rsu_spoofing(st, vsl_sched, lane_close_t, zone, lc_kwargs) ==
    RsuAt(st, time, vsl_sched, lane_close_t, zone, lc_kwargs)

---------------------------------------------------------------------------
\* Spec: one policy function driven once per simulation step.

Policies == {"emergency_brake", "cc_emergency_brake", "rear_end",
             "lane_closure", "vsl_control", "set_target_speed", "rsu_spoofing"}

NoParams == [vehicle_id |-> "ego", stop_position |-> 0, emergency_deceleration |-> 1,
             aggressive_accel |-> 0, target_vehicles |-> None, target_type |-> None,
             vsl_mph |-> 0, zone |-> <<0, 0>>,
             default_speed_mps |-> DefaultSpeedMps,
             max_deceleration_m_s2 |-> DefaultMaxDecel,
             vsl_sched |-> <<>>, lane_close_t |-> 0, lc_kwargs |-> {},
             target_speed_mps |-> 0, accel_rate_m_s2 |-> 0]

\* Arguments of the emergency brake: deceleration is nonzero (either sign,
\* the code takes its magnitude).
BrakeParams ==
    {[NoParams EXCEPT !.vehicle_id = v, !.stop_position = sp,
                      !.emergency_deceleration = d] :
        v \in {"ego", "v1"}, sp \in 1..MaxPos, d \in {-2, 3}}

RearEndParams ==
    {[NoParams EXCEPT !.aggressive_accel = 3, !.target_vehicles = tv,
                      !.target_type = tt] :
        tv \in {None, Str("v1"), List(<<"v1", "v2">>)},
        tt \in {None, Str(<<"C", "A", "V">>)}}

\* Keyword arguments of lane_closure: none (the defaults, a detection zone
\* far down the lane), a detection zone within the modelled positions, and
\* the other lane closed.
NearZone == {<<"detection_min", 1>>, <<"detection_max", 2>>}

LaneClosureKwargs ==
    {{}, NearZone,
     NearZone \cup {<<"lane_id", "E0_1">>, <<"merge_to_lane", 0>>}}

LaneClosureParams == {[NoParams EXCEPT !.lc_kwargs = kw] : kw \in LaneClosureKwargs}

\* Arguments of vsl_control: a limit of 2 or 4 mph (0.89 and 1.79 m/s), the
\* zone (0, MaxPos), the default and another deceleration.
VslParams ==
    {[NoParams EXCEPT !.vsl_mph = m, !.zone = <<0, MaxPos>>,
                      !.max_deceleration_m_s2 = d] :
        m \in {2, 4}, d \in {DefaultMaxDecel, 2}}

\* Schedules of rsu_spoofing (times in steps): adjacent entries, overlapping
\* entries in both orders, and one entry with time before and after it.
Schedules ==
    {<< <<0, 1, 2>>, <<1, MaxTime, 4>> >>,
     << <<0, MaxTime, 2>>, <<1, MaxTime, 4>> >>,
     << <<1, MaxTime, 4>>, <<0, MaxTime, 2>> >>,
     << <<1, 2, 4>> >>}

RsuParams ==
    {[NoParams EXCEPT !.vsl_sched = sch, !.lane_close_t = lt,
                      !.zone = <<0, MaxPos>>, !.lc_kwargs = kw] :
        sch \in Schedules, lt \in {2, MaxTime + 1}, kw \in {{}, NearZone}}

\* Arguments of set_target_speed: a target of 1 m/s, a rate of either sign
\* or zero, and the selections of RearEndParams.
TargetSpeedParams ==
    {[q EXCEPT !.aggressive_accel = 0, !.target_speed_mps = 1, !.accel_rate_m_s2 = r] :
        q \in RearEndParams, r \in {-2, 0, 2}}

ParamsOf(p) ==
    CASE p = "rear_end" -> RearEndParams
      [] p = "set_target_speed" -> TargetSpeedParams
      [] p = "lane_closure" -> LaneClosureParams
      [] p = "vsl_control" -> VslParams
      [] p = "rsu_spoofing" -> RsuParams
      [] OTHER -> BrakeParams

NoCfg == [type |-> "none", end_time |-> None, vehicle_id |-> None,
          aggressive_accel |-> 3, target_vehicles |-> None, target_type |-> None,
          seed_count |-> 0, scenario_list |-> None, det_every |-> 0]

CollisionReports ==
    {[collider |-> p[1], victim |-> p[2]] :
        p \in {q \in Vehicles \X Vehicles : q[1] # q[2]}}

CollisionLists == UNION {[1..n -> CollisionReports] : n \in 0..MaxColl}

Zero == [v \in Vehicles |-> 0]

Lanes == {"E0_0", "E0_1"}

\* Accelerations a vehicle may show: a hard brake and none.
Accels == {-5, 0}

CAVs == {v \in Vehicles : IsCAV(v)}

\* The vehicles whose attribute the code run in mode p reads.
Readers(attr, p, target) ==
    CASE p \in {"emergency_brake", "cc_emergency_brake"} ->
            IF attr = "pos" THEN {target}
            ELSE IF attr = "speed" THEN {target, "ego"} ELSE {}
      [] p = "vsl_control" -> IF attr \in {"pos", "speed"} THEN CAVs ELSE {}
      [] p = "set_target_speed" -> IF attr = "speed" THEN Vehicles ELSE {}
      [] p \in {"lane_closure", "rsu_spoofing"} ->
            IF attr \in {"pos", "lane"} THEN CAVs ELSE {}
      [] p = "base" -> IF attr = "accel" THEN {"v1"} ELSE {}
      [] OTHER -> {}

\* x is some assignment of values to the vehicles of S, and blank elsewhere.
Drawn(x, S, values, blank) ==
    \E f \in [S -> values] : x = [v \in Vehicles |-> IF v \in S THEN f[v] ELSE blank]

\* The snapshot after one traci.simulationStep(): vehicles enter and leave
\* freely. Only the attributes the code run in mode p reads are varied, and
\* an absent vehicle has no attribute (kept blank).
Snapshot(p, target) ==
    /\ live' \in SUBSET Vehicles
    /\ collisions' \in (IF p = "rear_end" THEN CollisionLists ELSE {<<>>})
    /\ Drawn(pos', Readers("pos", p, target) \cap live', Positions, 0)
    /\ Drawn(speed', Readers("speed", p, target) \cap live', Speeds, 0)
    /\ Drawn(lane', Readers("lane", p, target) \cap live', Lanes, "")
    /\ Drawn(accel', Readers("accel", p, target) \cap live', Accels, 0)

\* The session right after traci.start: time 0 and no vehicle.
NoTraffic ==
    /\ live = {} /\ pos = Zero /\ speed = Zero /\ accel = Zero
    /\ lane = [v \in Vehicles |-> ""] /\ collisions = <<>> /\ time = 0

\* det_rows, brake_rows, coll_rows = [], [], []
EmptyRows == [det |-> <<>>, brake |-> <<>>, coll |-> <<>>]

Init ==
    /\ NoTraffic
    /\ cmds = <<>> /\ state = EmptyState /\ err = "none" /\ pc = "advance"
    /\ calls = <<>> /\ unconfirmed = {}
    /\ policy \in Policies
    /\ params \in ParamsOf(policy)
    /\ cfg = NoCfg /\ run = <<0, 0>> /\ sessions = 0 /\ started = 0 /\ invoked = 0
    /\ rows = EmptyRows /\ step_counter = 0 /\ written = EmptyRows

\* traci.simulationStep() of the driven loop
Advance ==
    /\ pc = "advance" /\ time < MaxTime
    /\ time' = time + 1
    /\ Snapshot(policy, params.vehicle_id)
    /\ cmds' = <<>> /\ calls' = <<>> /\ unconfirmed' = {}
    /\ pc' = "policy"
    /\ UNCHANGED <<state, err, policy, params, runnerVars>>

\* The outcome of a policy call lands in the state, the command log and,
\* when it raised, in err (the exception leaves the loop).
Land(r) ==
    /\ state' = r.state
    /\ cmds' = r.cmds
    /\ err' = r.err
    /\ calls' = r.calls
    /\ unconfirmed' = r.unconfirmed
    /\ pc' = IF r.err = "none" THEN "advance" ELSE "raised"
    /\ UNCHANGED <<simVars, policy, params, runnerVars>>

ApplyEmergencyBrake ==
    /\ pc = "policy" /\ policy = "emergency_brake"
    /\ Land(emergency_brake(state, params.vehicle_id, params.stop_position,
                            params.emergency_deceleration))

ApplyCCEmergencyBrake ==
    /\ pc = "policy" /\ policy = "cc_emergency_brake"
    /\ Land(cc_emergency_brake(state, params.vehicle_id, params.stop_position))

ApplyRearEnd ==
    /\ pc = "policy" /\ policy = "rear_end"
    /\ Land(rear_end_collision(state, params.aggressive_accel,
                               params.target_vehicles, params.target_type))

ApplyLaneClosure ==
    /\ pc = "policy" /\ policy = "lane_closure"
    /\ Land(lane_closure(state, params.lc_kwargs))

ApplyVslControl ==
    /\ pc = "policy" /\ policy = "vsl_control"
    /\ Land(vsl_control(state, params.vsl_mph, params.zone[1], params.zone[2],
                        params.default_speed_mps, params.max_deceleration_m_s2))

ApplySetTargetSpeed ==
    /\ pc = "policy" /\ policy = "set_target_speed"
    /\ Land(set_target_speed(state, params.target_speed_mps, params.accel_rate_m_s2,
                             params.target_vehicles, params.target_type))

ApplyRsuSpoofing ==
    /\ pc = "policy" /\ policy = "rsu_spoofing"
    /\ Land(rsu_spoofing(state, params.vsl_sched, params.lane_close_t,
                         params.zone, params.lc_kwargs))

Next ==
    \/ Advance \/ ApplyEmergencyBrake \/ ApplyCCEmergencyBrake \/ ApplyRearEnd
    \/ ApplyLaneClosure \/ ApplyVslControl \/ ApplySetTargetSpeed \/ ApplyRsuSpoofing

Spec == Init /\ [][Next]_vars

---------------------------------------------------------------------------
\* RunnerSpec: main() of sysimpactcv/runner.py.

MaxSeeds == 2

Num(n) == [kind |-> "num", val |-> n]

\* ATTACK_FN: attack key -> policy function
ATTACK_FN == [emergency_brake |-> "emergency_brake",
              rear_end        |-> "rear_end_collision",
              lane_closure    |-> "lane_closure",
              scenario3       |-> "rsu_spoofing"]

\* The attack types the if/elif chain of the step loop has a branch for.
DispatchBranches == {"emergency_brake", "rear_end", "lane_closure", "rsu_spoofing"}

\* Keyword arguments each branch passes (state is passed positionally).
Supplied(branch) ==
    CASE branch = "emergency_brake" -> {"vehicle_id", "stop_position"}
      [] branch = "rear_end" -> {"aggressive_accel", "target_type", "target_vehicles"}
      [] branch = "lane_closure" -> {"target_type"}
      [] branch = "rsu_spoofing" -> {"vsl_sched", "lane_close_t", "zone"}

\* Options a branch reads with atk_cfg[...], which raises KeyError when the
\* option is missing (get/getfloat return None instead).
Subscripted(branch, c) ==
    CASE branch = "emergency_brake" -> {c.vehicle_id}
      [] branch = "lane_closure" -> {c.target_type}
      [] OTHER -> {}

\* Parameters of the policy functions after `state` (attacks.py def lines).
Signature(fn) ==
    CASE fn = "emergency_brake" ->
            [required |-> {"vehicle_id", "stop_position", "emergency_deceleration"},
             optional |-> {}, varkw |-> FALSE]
      [] fn = "rear_end_collision" ->
            [required |-> {"aggressive_accel"},
             optional |-> {"target_vehicles", "target_type", "leader_gap"},
             varkw |-> FALSE]
      [] fn = "lane_closure" ->
            [required |-> {},
             optional |-> {"lane_id", "merge_to_lane", "detection_min", "detection_max"},
             varkw |-> FALSE]
      [] fn = "rsu_spoofing" ->
            [required |-> {"vsl_sched", "lane_close_t", "zone"},
             optional |-> {}, varkw |-> TRUE]

UnknownAttackError == "ValueError: Attack not implemented"
EndTimeError == "TypeError: '<' not supported between 'float' and 'NoneType'"
MissingKeyError == "KeyError: option missing in [attack]"
MissingArgError == "TypeError: missing required argument"
UnexpectedArgError == "TypeError: got an unexpected keyword argument"

\* Python's binding of a call's keyword arguments to a function's parameters.
BindError(fn, supplied) ==
    LET sig == Signature(fn)
    IN  IF ~sig.varkw /\ supplied \ (sig.required \cup sig.optional) # {}
        THEN UnexpectedArgError
        ELSE IF sig.required \ supplied # {} THEN MissingArgError
        ELSE "none"

\* modes: scenario_list, which defaults to "base,<attack type>"
Modes(c) ==
    IF c.scenario_list.kind = "none" THEN <<"base", c.type>> ELSE c.scenario_list.val

\* The [attack] sections tried with a given [simulation] section b; one
\* scenario lists the attack mode twice, so that a mode and seed run twice.
AttackSections(b) ==
    LET cav == Str(<<"C", "A", "V">>)
    IN  {[b EXCEPT !.type = "emergency_brake", !.vehicle_id = v] :
            v \in {None, Str("ego")}}
        \cup {[b EXCEPT !.type = "rear_end", !.target_vehicles = tv, !.target_type = tt] :
            tv \in {None, Str("v1")}, tt \in {None, cav}}
        \cup {[b EXCEPT !.type = "rear_end", !.target_type = cav,
                        !.scenario_list = List(<<"rear_end", "rear_end">>)]}
        \cup {[b EXCEPT !.type = "lane_closure", !.target_type = tt] : tt \in {None, cav}}
        \cup {[b EXCEPT !.type = "scenario3"], [b EXCEPT !.type = "rsu_spoofing"]}

\* The scenario.ini contents the runner is started with. Each asks for the
\* detectors to be sampled every second step (option det_every, which main()
\* never reads).
Configs ==
    UNION {AttackSections([NoCfg EXCEPT !.end_time = e, !.seed_count = n,
                                        !.det_every = 2]) :
              e \in {None, Num(MaxTime)}, n \in 1..MaxSeeds}

Mode == Modes(cfg)[run[1]]

\* Mutant of ModeMatches: the policy is dispatched whatever the mode.
ModeIgnored(mode, attack_type) == TRUE

\* if mode == attack_type
ModeMatches(mode, attack_type) == mode = attack_type

\* Lines 133-167: what one pass over the dispatch does to the state, the
\* command log and the exception; `invoked` counts the policy bodies entered.
Dispatch(mode, c, st) ==
    LET skip == [state |-> st, cmds |-> <<>>, err |-> "none", invoked |-> 0,
                 calls |-> <<>>, unconfirmed |-> {}]
    IN  IF ~ModeMatches(mode, c.type) THEN skip
        ELSE IF c.type \notin DispatchBranches THEN skip
        ELSE IF \E o \in Subscripted(c.type, c) : o.kind = "none"
        THEN [skip EXCEPT !.err = MissingKeyError]
        ELSE IF BindError(ATTACK_FN[c.type], Supplied(c.type)) # "none"
        THEN [skip EXCEPT !.err = BindError(ATTACK_FN[c.type], Supplied(c.type))]
        ELSE IF c.type = "rear_end"
        THEN LET r == rear_end_collision(st, c.aggressive_accel,
                                         c.target_vehicles, c.target_type)
             IN  [state |-> r.state, cmds |-> r.cmds, err |-> r.err, invoked |-> 1,
                  calls |-> r.calls, unconfirmed |-> r.unconfirmed]
        ELSE skip

RunnerInit ==
    /\ NoTraffic
    /\ cmds = <<>> /\ state = EmptyState /\ err = "none" /\ pc = "load"
    /\ calls = <<>> /\ unconfirmed = {}
    /\ policy = "main" /\ params = NoParams
    /\ cfg \in Configs
    /\ run = <<0, 0>> /\ sessions = 0 /\ started = 0 /\ invoked = 0
    /\ rows = EmptyRows /\ step_counter = 0 /\ written = EmptyRows

\* Lines 64-93: the attack type is looked up in the registry. (The seeds are
\* seed_count distinct random numbers; a run is identified by its index.)
LoadConfig ==
    /\ pc = "load"
    /\ IF cfg.type \notin DOMAIN ATTACK_FN
       THEN err' = UnknownAttackError /\ pc' = "crashed" /\ run' = run
       ELSE err' = err /\ pc' = "start" /\ run' = <<1, 1>>
    /\ UNCHANGED <<simVars, auditVars, cmds, state, policy, params, cfg,
                   sessions, started, invoked, rows, step_counter, written>>

\* Mutant of NewState: the dict of the previous run is kept.
KeptState(st) == st

\* state = {}
NewState(st) == EmptyState

\* Lines 97-125: traci.start(cmd), then state = {}, the row accumulators and
\* STEP_COUNTER = 0.
StartRun ==
    /\ pc = "start"
    /\ sessions' = sessions + 1
    /\ started' = started + 1
    /\ state' = NewState(state)
    /\ rows' = EmptyRows
    /\ step_counter' = 0
    /\ written' = EmptyRows
    /\ live' = {} /\ pos' = Zero /\ speed' = Zero /\ accel' = Zero
    /\ lane' = [v \in Vehicles |-> ""] /\ collisions' = <<>> /\ time' = 0
    /\ cmds' = <<>> /\ invoked' = 0 /\ calls' = <<>> /\ unconfirmed' = {}
    /\ pc' = "test"
    /\ UNCHANGED <<err, policy, params, cfg, run>>

\* Mutant of Running: the loop goes on through the step at end_time.
RunningThroughEnd(t, end_time) == t <= end_time

\* while traci.simulation.getTime() < end_time
Running(t, end_time) == t < end_time

\* Line 128 with end_time missing: getfloat returned None and the comparison raises.
LoopTestFails ==
    /\ pc = "test" /\ cfg.end_time.kind = "none"
    /\ err' = EndTimeError
    /\ pc' = "crashed"
    /\ UNCHANGED <<simVars, auditVars, cmds, state, policy, params, runnerVars>>

\* Mutant of LoopOrder: the samplers run before the policy.
SamplersFirst(at) ==
    CASE at = "test" -> "sample" [] at = "sample" -> "dispatch" [] OTHER -> "test"

\* The order of the loop body (lines 128-182): the loop test and the step
\* advance, then the dispatch of the policy, then the samplers, then the
\* loop test again.
LoopOrder(at) ==
    CASE at = "test" -> "dispatch" [] at = "dispatch" -> "sample" [] OTHER -> "test"

\* Lines 128-131: the loop condition holds and the session advances one step.
SimulationStep ==
    /\ pc = "test" /\ cfg.end_time.kind = "num" /\ Running(time, cfg.end_time.val)
    /\ time' = time + 1
    /\ Snapshot(IF Mode = cfg.type THEN cfg.type ELSE "base",
                IF cfg.vehicle_id.kind = "str" THEN cfg.vehicle_id.val ELSE "ego")
    /\ step_counter' = step_counter + 1
    /\ cmds' = <<>> /\ invoked' = 0 /\ calls' = <<>> /\ unconfirmed' = {}
    /\ pc' = LoopOrder(pc)
    /\ UNCHANGED <<state, err, policy, params, cfg, run, sessions, started, rows,
                   written>>

\* Lines 133-167: the policy of the run's mode, if any.
DispatchPolicy ==
    /\ pc = "dispatch"
    /\ LET r == Dispatch(Mode, cfg, state)
       IN  /\ state' = r.state
           /\ cmds' = r.cmds
           /\ err' = r.err
           /\ invoked' = r.invoked
           /\ calls' = r.calls
           /\ unconfirmed' = r.unconfirmed
           /\ pc' = IF r.err = "none" THEN LoopOrder(pc) ELSE "crashed"
    /\ UNCHANGED <<simVars, policy, params, cfg, run, sessions, started,
                   rows, step_counter, written>>

\* lane_ids = load_detectors(lane_xml)
LaneIds == <<"det0">>

\* if STEP_COUNTER % 10 == 0
DetEvery == 10

\* acc < threshold, with the threshold -4.5 of ebrake_threshold's fallback
BelowThreshold(acc) == 2 * acc < -9

\* A row as far as the model keeps it: its time, the detector or vehicle it
\* is about (for a collision: the index of the report in the step's list)
\* and the mode and seed the runner extends it with.
Row(t, id) == [t |-> t, id |-> id, mode |-> Mode, seed |-> run[2]]

\* The rows one step appends: the detectors every DetEvery steps, poll_brakes
\* and poll_collisions every step.
StepRows ==
    LET hard == SelectSeq(IDList, LAMBDA v : BelowThreshold(accel[v]))
    IN  [det   |-> IF step_counter % DetEvery = 0
                   THEN [i \in 1..Len(LaneIds) |-> Row(time, LaneIds[i])]
                   ELSE <<>>,
         brake |-> [i \in 1..Len(hard) |-> Row(time, hard[i])],
         coll  |-> [i \in 1..Len(collisions) |-> Row(time, i)]]

\* Mutant of Extend: the step's rows replace the rows held so far.
Replace(held, new) == new

\* det_rows.append(...), brake_rows.append(...), coll_rows.append(...)
Extend(held, new) == held \o new

\* Lines 169-182: the samplers read the session and append rows.
Sample ==
    /\ pc = "sample"
    /\ rows' = [k \in DOMAIN rows |-> Extend(rows[k], StepRows[k])]
    /\ pc' = LoopOrder(pc)
    /\ UNCHANGED <<simVars, auditVars, cmds, state, err, policy, params,
                   cfg, run, sessions, started, invoked, step_counter, written>>

\* Lines 128, 186-212: the loop ends, traci.close(), the CSVs are written and
\* the seed loop (inner) and mode loop (outer) move on.
CloseRun ==
    /\ pc = "test" /\ cfg.end_time.kind = "num" /\ ~Running(time, cfg.end_time.val)
    /\ sessions' = sessions - 1
    /\ written' = rows
    /\ IF run[2] < cfg.seed_count THEN run' = <<run[1], run[2] + 1>> /\ pc' = "start"
       ELSE IF run[1] < Len(Modes(cfg)) THEN run' = <<run[1] + 1, 1>> /\ pc' = "start"
       ELSE run' = run /\ pc' = "done"
    /\ UNCHANGED <<simVars, auditVars, cmds, state, err, policy, params, cfg,
                   started, invoked, rows, step_counter>>

RunnerNext ==
    \/ LoadConfig \/ StartRun \/ LoopTestFails \/ SimulationStep
    \/ DispatchPolicy \/ Sample \/ CloseRun

RunnerSpec == RunnerInit /\ [][RunnerNext]_vars

\* main() is one thread that executes its next statement as long as it has
\* one: the runner under weak fairness of each of its steps. At most one step
\* is enabled in a state. The dispatch has no guard but its place in the loop
\* and always leaves it, so ENABLED <<DispatchPolicy>>_vars is pc = "dispatch"
\* and its weak fairness is written out with that.
FairRunnerSpec ==
    /\ RunnerSpec
    /\ WF_vars(LoadConfig) /\ WF_vars(StartRun) /\ WF_vars(LoopTestFails)
    /\ WF_vars(SimulationStep) /\ WF_vars(Sample) /\ WF_vars(CloseRun)
    /\ ([]<>(pc # "dispatch") \/ []<><<DispatchPolicy>>_vars)

---------------------------------------------------------------------------
\* Properties of the policies (checked under Spec).

CmdsTo(log, v) == SelectSeq(log, LAMBDA c : c.vid = v)

\* The errors that reject a configuration.
ConfigErrors == {UnknownAttackError, EndTimeError, MissingKeyError, NeitherError}

\* The policy has been called in the current step.
Called == pc # "policy" /\ time >= 1

\* C1: a completion flag (the scalar of emergency_brake, every entry of the
\* map of rear_end_collision) never goes from true back to false within a
\* run, for every evolution of the live set; hence it turns true at most once.
C1_FlagsMonotone ==
    [][/\ (state.has /\ state.attack_success) => state'.attack_success
       /\ state.has => state'.has
       /\ state.map_true \subseteq state'.map_true
       /\ state.map_keys \subseteq state'.map_keys]_vars

\* A target that is live and flagged, and for which the last call issued no
\* attack command: its flag was already true when the call was made.
C1_Witness ==
    /\ policy = "rear_end" /\ Called /\ time >= 2
    /\ params.target_vehicles = Str("v1")
    /\ "v1" \in live /\ "v1" \in state.map_true
    /\ CmdsTo(cmds, "v1") = <<>>

\* C2: once an entity's completion flag is true, no later policy call issues a
\* command addressed to that entity (also not as the victim of another
\* target's collision).
C2_NoCommandAfterComplete ==
    [][/\ (policy # "rear_end" /\ state.has /\ state.attack_success)
            => CmdsTo(cmds', params.vehicle_id) = <<>>
       /\ policy = "rear_end"
            => \A v \in state.map_true : CmdsTo(cmds', v) = <<>>]_vars

\* C3: emergency brake timeline. At the step where the target is present with
\* position >= stop_position the call leaves the flag true, it issues the
\* stop ramp exactly when the flag was still false, and a call made below
\* the stop position with the flag false leaves it false.
C3_BrakeTimeline ==
    [][(pc = "policy" /\ policy = "emergency_brake"
            /\ params.vehicle_id \in live) =>
         LET reached == pos[params.vehicle_id] >= params.stop_position
             before == state.has /\ state.attack_success
             stops == SelectSeq(cmds', LAMBDA c : c.op = "slowDown")
         IN  /\ reached => state'.attack_success
             /\ (reached /\ ~before) => Len(stops) = 1
             /\ (~reached \/ before) => Len(stops) = 0
             /\ (~reached /\ ~before) => ~state'.attack_success]_vars

\* C4: emergency brake absence rule. A call made with the flag false and the
\* target absent sets the flag and issues no command.
C4_AbsentMarksComplete ==
    [][(pc = "policy" /\ policy = "emergency_brake"
            /\ ~(state.has /\ state.attack_success)
            /\ params.vehicle_id \notin live) =>
         (state'.attack_success /\ cmds' = <<>>)]_vars

\* C5: emergency brake trigger. With the target present, the flag false and
\* position >= stop_position the call disables speed mode and lane-change
\* mode, ramps the target to 0 over (the target's own speed) / |deceleration|
\* and sets the flag, for every target id. (Stated for the steps in which
\* the vehicle named 'ego' is in the simulation as well.)
C5_BrakeTrigger ==
    [][(pc = "policy" /\ policy = "emergency_brake"
            /\ ~(state.has /\ state.attack_success)
            /\ params.vehicle_id \in live /\ "ego" \in live
            /\ pos[params.vehicle_id] >= params.stop_position) =>
         LET v == params.vehicle_id
         IN  /\ state'.attack_success
             /\ Len(cmds') = 3
             /\ cmds'[1] = Cmd("setSpeedMode", v, 0, 0, 1)
             /\ cmds'[2] = Cmd("setLaneChangeMode", v, 0, 0, 1)
             /\ cmds'[3].op = "slowDown" /\ cmds'[3].vid = v /\ cmds'[3].a = 0
             /\ cmds'[3].b * Abs(params.emergency_deceleration)
                  = speed[v] * cmds'[3].den]_vars

\* C6: rear-end completion. When the first target of the call is unfinished
\* and present and a collision report names it as collider, the call zeroes
\* acceleration and speed of the target and of the first such report's
\* victim, restores both vehicles' modes to the default and flags the target.
C6_CollisionCompletes ==
    [][(pc = "policy" /\ policy = "rear_end"
            /\ SelectionError(params.target_vehicles, params.target_type) = "none"
            /\ TargetList(params.target_vehicles, params.target_type) # <<>>) =>
         LET v == Head(TargetList(params.target_vehicles, params.target_type))
             h == FirstCollision(v)
         IN  (v \notin state.map_true /\ v \in live /\ h # 0) =>
                LET w == collisions[h].victim
                    halt(x) == <<Cmd("setAcceleration", x, 0, 0, 1),
                                 Cmd("setSpeed", x, 0, 0, 1),
                                 Cmd("setSpeedMode", x, DefaultMode, 0, 1),
                                 Cmd("setLaneChangeMode", x, DefaultMode, 0, 1)>>
                IN  /\ v \in state'.map_true
                    /\ Len(cmds') >= 11
                    /\ SubSeq(cmds', 4, 11) = halt(v) \o halt(w)]_vars

\* C7: target selection takes exactly one of id list and type substring:
\* a call with neither, and a call with both, is rejected as a configuration
\* error and commands no vehicle.
C7_ExactlyOneSelection ==
    (policy = "rear_end" /\ Called
        /\ (params.target_vehicles.kind = "none") = (params.target_type.kind = "none"))
    => (err \in ConfigErrors /\ cmds = <<>>)

\* The zone test and the target speed of the vsl_control call under drive.
VslInZone(v) == InZone(pos[v], params.zone[1], params.zone[2])
VslTarget == MphToMps(params.vsl_mph)

\* C14: after a vsl_control step the tracker state['slowing_vehicles'] has no
\* entry for a live CAV-type vehicle whose position the step found outside
\* the zone.
C14_TrackerCleanup ==
    [][(pc = "policy" /\ policy = "vsl_control") =>
         \A v \in live : (IsCAV(v) /\ ~VslInZone(v)) =>
             v \notin Keys(state'.slowing_vehicles)]_vars

\* The step that has to clean up: 'ego' was registered by an earlier step
\* and is now read outside the zone.
C14_Witness ==
    /\ pc = "policy" /\ policy = "vsl_control"
    /\ "ego" \in Keys(state.slowing_vehicles)
    /\ "ego" \in live /\ ~VslInZone("ego")

\* The vehicles in the middle of a ramp: live, CAV-type, inside the zone and
\* faster than the target.
MidRamp == {v \in live : IsCAV(v) /\ VslInZone(v) /\ Mps(speed[v]) > VslTarget}

\* C15: after every vsl_control step the key set of the tracker equals the
\* set of vehicles in the middle of a ramp; no entry for a vehicle that left
\* the simulation or that is inside the zone at or below the target.
C15_TrackerExact ==
    (policy = "vsl_control" /\ Called) => Keys(state.slowing_vehicles) = MidRamp

\* C16: for a CAV-type vehicle inside the zone a vsl_control step issues, if
\* the vehicle is faster than the target, exactly one slowDown to the target
\* of duration (current - target) / |max_decel| and registers the vehicle
\* with the target in the tracker; otherwise exactly one setMaxSpeed to the
\* target and no ramp. No other kind of command is sent (the deceleration is
\* never a command argument), and 20 m/s, 10 m/s, 2 m/s^2 give 5 s.
C16_InZoneLaw ==
    [][(pc = "policy" /\ policy = "vsl_control") =>
         /\ \A v \in live : (IsCAV(v) /\ VslInZone(v)) =>
               LET cs == CmdsTo(cmds', v)
               IN  IF Mps(speed[v]) > VslTarget
                   THEN /\ Len(cs) = 1
                        /\ cs[1].op = "slowDown" /\ cs[1].a = VslTarget
                        /\ cs[1].den # 0
                        /\ cs[1].b * Abs(params.max_deceleration_m_s2) * MphDen
                             = (Mps(speed[v]) - VslTarget) * cs[1].den
                        /\ <<v, VslTarget>> \in state'.slowing_vehicles
                   ELSE cs = <<Cmd("setMaxSpeed", v, VslTarget, 0, 1)>>
         /\ \A i \in 1..Len(cmds') : cmds'[i].op \in {"slowDown", "setMaxSpeed"}
         /\ \A d \in {-2, 2} :
               DecelTime(Mps(20), Mps(10), d).b = 5 * DecelTime(Mps(20), Mps(10), d).den]_vars

\* A step in which 'ego' was ramped down (a positive duration) and registered
\* while 'v2', at or below the target, had its max speed pinned.
C16_Witness ==
    /\ policy = "vsl_control" /\ Called
    /\ \E i \in 1..Len(cmds) :
          cmds[i].op = "slowDown" /\ cmds[i].vid = "ego" /\ cmds[i].b > 0
    /\ <<"ego", VslTarget>> \in state.slowing_vehicles
    /\ Cmd("setMaxSpeed", "v2", VslTarget, 0, 1) \in {cmds[i] : i \in 1..Len(cmds)}

\* A command speed a (in 1/MphDen m/s) is mph miles per hour: a / MphDen =
\* mph * 0.44704, with 0.44704 = 5588 / 12500.
IsMph(a, mph) == a * 12500 = mph * 5588 * MphDen

\* Schedule entries that hold time t strictly inside, and those whose closed
\* interval holds t. (Whether an end point belongs to the interval is not
\* part of C17.)
Inside(sched, t) == {i \in 1..Len(sched) : sched[i][1] < t /\ t < sched[i][2]}
Around(sched, t) == {i \in 1..Len(sched) : sched[i][1] <= t /\ t <= sched[i][2]}

Max(S) == CHOOSE x \in S : \A y \in S : y <= x

\* The CAV-type vehicles strictly inside the zone of the call under drive.
RsuPinned == {v \in live : IsCAV(v) /\ params.zone[1] < pos[v] /\ pos[v] < params.zone[2]}

\* The setMaxSpeed commands of a log.
MaxSpeedCmds(log) == SelectSeq(log, LAMBDA c : c.op = "setMaxSpeed")

\* C17: in an rsu_spoofing step at time t, when the last schedule entry
\* around t holds t inside, every CAV-type vehicle in the zone ends the step
\* with its max speed set to that entry's mph figure times 0.44704, also when
\* earlier entries overlap it; when no entry is around t, no setMaxSpeed is
\* sent. With the schedule (0,50,45),(50,100,30) at t = 60 the value is 30
\* mph converted, and 45 mph is not sent.
C17_ScheduleSelection ==
    [][(pc = "policy" /\ policy = "rsu_spoofing") =>
         LET sched == params.vsl_sched
             ms == MaxSpeedCmds(cmds')
             ex == MaxSpeedCmds(RsuAt(state, 60, << <<0, 50, 45>>, <<50, 100, 30>> >>,
                                      params.lane_close_t, params.zone,
                                      params.lc_kwargs).cmds)
         IN  /\ Around(sched, time) = {} => ms = <<>>
             /\ (Around(sched, time) # {} /\ Max(Around(sched, time)) \in Inside(sched, time)) =>
                   \A v \in RsuPinned :
                       /\ CmdsTo(ms, v) # <<>>
                       /\ IsMph(CmdsTo(ms, v)[Len(CmdsTo(ms, v))].a,
                                sched[Max(Around(sched, time))][3])
             /\ \A v \in RsuPinned : CmdsTo(ex, v) # <<>>
             /\ \A i \in 1..Len(ex) : IsMph(ex[i].a, 30) /\ ~IsMph(ex[i].a, 45)]_vars

\* A step at a time inside two overlapping entries: 'ego', in the zone, was
\* sent both values and the later entry's value last.
C17_Witness ==
    /\ policy = "rsu_spoofing" /\ Called /\ time = 2
    /\ params.vsl_sched = << <<0, MaxTime, 2>>, <<1, MaxTime, 4>> >>
    /\ Len(CmdsTo(MaxSpeedCmds(cmds), "ego")) = 2
    /\ IsMph(CmdsTo(MaxSpeedCmds(cmds), "ego")[1].a, 2)
    /\ IsMph(CmdsTo(MaxSpeedCmds(cmds), "ego")[2].a, 4)

\* The elements of a sequence.
Range(seq) == {seq[i] : i \in 1..Len(seq)}

\* C18: an rsu_spoofing step calls lane_closure exactly when the current time
\* is >= the activation time, whether or not a schedule entry is active; when
\* it does, the step ends with the commands of that lane closure, after the
\* speed pinning of the active schedule entries; when it does not, the step
\* sends no lane-closure command.
C18_TimeGating ==
    [][(pc = "policy" /\ policy = "rsu_spoofing") =>
         LET due == time >= params.lane_close_t
             lc == lane_closure(state, params.lc_kwargs).cmds
             n == Len(MaxSpeedCmds(cmds'))
         IN  /\ ("lane_closure" \in Range(calls')) <=> due
             /\ due => cmds' = SubSeq(cmds', 1, n) \o lc
             /\ ~due => cmds' = MaxSpeedCmds(cmds')
             /\ Inside(params.vsl_sched, time) # {} =>
                   ("_vsl_step" \in Range(calls') /\ (RsuPinned # {} => n > 0))]_vars

\* A step in which a schedule entry is active and the closure is due: 'ego'
\* was sent a speed pin and then a lane change.
C18_Witness ==
    /\ policy = "rsu_spoofing" /\ Called /\ time >= params.lane_close_t
    /\ Range(calls) = {"_vsl_step", "lane_closure"}
    /\ \E i, j \in 1..Len(cmds) :
          /\ i < j
          /\ cmds[i].op = "setMaxSpeed" /\ cmds[i].vid = "ego"
          /\ cmds[j].op = "changeLane" /\ cmds[j].vid = "ego"

\* C19: every vehicle command a policy issues in a step goes to a vehicle the
\* policy has found in that step's traci.vehicle.getIDList() before: no
\* vehicle is commanded unconfirmed, the victim of a collision and the listed
\* target ids included.
C19_PresenceBeforeCommand ==
    unconfirmed = {}

\* C20: no policy step ends in an error because a vehicle it targets or
\* refers to (the configured target, a listed id, a collision victim, the
\* vehicle named 'ego') is absent from the simulation.
C20_AbsenceNeverFails ==
    err # TraCIError

\* The commands a lane closure with closed lane, destination and detection
\* zone [dmin, dmax) owes vehicle v.
ClosureDuty(v, lane_id, merge_to_lane, dmin, dmax) ==
    IF v \notin live \/ ~Contains(<<"C", "A", "V">>, TypeID[v]) THEN <<>>
    ELSE IF lane[v] # lane_id THEN <<Cmd("setSpeed", v, -1, 0, 1)>>
    ELSE IF pos[v] < dmin THEN <<>>
    ELSE IF pos[v] < dmax THEN <<Cmd("changeLane", v, merge_to_lane, 2, 1)>>
    ELSE <<Cmd("setSpeed", v, 0, 0, 1), Cmd("changeLane", v, merge_to_lane, 2, 1)>>

\* C24: a lane_closure step sends every live vehicle of the matched type
\* (a) on the closed lane with detection_min <= pos < detection_max exactly a
\* lane change to the destination lane, (b) on the closed lane with pos >=
\* detection_max a set-speed 0 and then the lane change, (c) on the closed
\* lane with pos < detection_min nothing, (d) off the closed lane exactly a
\* set-speed -1; vehicles of another type get nothing.
C24_LaneClosureStep ==
    [][(pc = "policy" /\ policy = "lane_closure") =>
         LET a == LaneClosureArgs(params.lc_kwargs)
         IN  /\ err' = "none"
             /\ \A v \in Vehicles :
                   CmdsTo(cmds', v) = ClosureDuty(v, a.lane_id, a.merge_to_lane,
                                                  a.detection_min, a.detection_max)]_vars

\* A step that found 'ego' on the closed lane exactly at detection_min and
\* 'v2' on it at detection_max: a lane change for the first, a stop and a
\* lane change for the second.
C24_Witness ==
    /\ policy = "lane_closure" /\ Called /\ params.lc_kwargs = NearZone
    /\ {"ego", "v2"} \subseteq live
    /\ lane["ego"] = "E0_0" /\ pos["ego"] = 1
    /\ lane["v2"] = "E0_0" /\ pos["v2"] = 2
    /\ Len(CmdsTo(cmds, "ego")) = 1 /\ Len(CmdsTo(cmds, "v2")) = 2

\* pos lies in the half-open interval [lo, hi).
HalfOpen(p, lo, hi) == lo <= p /\ p < hi

\* C25: every zone-gated policy takes the zone as the half-open interval
\* [min, max). vsl_control treats a live CAV-type vehicle as inside (ramp or
\* pin to the target) exactly when min <= pos < max and as outside (default
\* speed restored) otherwise; rsu_spoofing, at a time inside a schedule
\* entry, pins exactly the CAV-type vehicles with min <= pos < max; and
\* lane_closure sends the mere lane change exactly to the CAV-type vehicles
\* on the closed lane with detection_min <= pos < detection_max.
C25_HalfOpenZones ==
    [][/\ (pc = "policy" /\ policy = "vsl_control") =>
             \A v \in live : IsCAV(v) =>
                 LET restored == Cmd("setMaxSpeed", v, params.default_speed_mps, 0, 1)
                 IN  HalfOpen(pos[v], params.zone[1], params.zone[2])
                        <=> (restored \notin Range(cmds'))
       /\ (pc = "policy" /\ policy = "rsu_spoofing"
               /\ Inside(params.vsl_sched, time) # {}) =>
             \A v \in live : IsCAV(v) =>
                 (HalfOpen(pos[v], params.zone[1], params.zone[2])
                    <=> CmdsTo(MaxSpeedCmds(cmds'), v) # <<>>)
       /\ (pc = "policy" /\ policy = "lane_closure") =>
             LET a == LaneClosureArgs(params.lc_kwargs)
             IN  \A v \in live : (IsCAV(v) /\ lane[v] = a.lane_id) =>
                     (HalfOpen(pos[v], a.detection_min, a.detection_max)
                        <=> CmdsTo(cmds', v) = <<Cmd("changeLane", v, a.merge_to_lane, 2, 1)>>)]_vars

\* The selected vehicles of the set_target_speed call under drive.
Selected == Range(TargetList(params.target_vehicles, params.target_type))

\* C26: a set_target_speed step sends every selected vehicle in the live
\* set, for every acceleration rate (0 included): speed mode 0 and lane
\* change mode 0; then a positive acceleration if its speed is below the
\* target, a slowDown to the target of duration (speed - target) / |rate| if
\* above; and last, in every branch, setMaxSpeed to the target. A selected
\* vehicle that is absent is sent nothing.
C26_TargetSpeedStep ==
    [][(pc = "policy" /\ policy = "set_target_speed"
            /\ (params.target_vehicles.kind # "none" \/ params.target_type.kind # "none")) =>
         \A v \in Selected :
             LET cs == CmdsTo(cmds', v)
                 target == params.target_speed_mps
                 rate == params.accel_rate_m_s2
             IN  IF v \notin live THEN cs = <<>>
                 ELSE /\ Len(cs) = (IF speed[v] = target THEN 3 ELSE 4)
                      /\ cs[1] = Cmd("setSpeedMode", v, 0, 0, 1)
                      /\ cs[2] = Cmd("setLaneChangeMode", v, 0, 0, 1)
                      /\ speed[v] < target =>
                            (cs[3].op = "setAcceleration" /\ cs[3].a > 0)
                      /\ speed[v] > target =>
                            /\ cs[3].op = "slowDown" /\ cs[3].a = Mps(target)
                            /\ cs[3].den # 0
                            /\ cs[3].b * Abs(rate) * MphDen
                                 = (Mps(speed[v]) - Mps(target)) * cs[3].den
                      /\ cs[Len(cs)] = Cmd("setMaxSpeed", v, Mps(target), 0, 1)]_vars

\* Keyword arguments kw with the detection zone replaced by zone.
WithZone(kw, zone) ==
    {q \in kw : q[1] \notin {"detection_min", "detection_max"}}
        \cup {<<"detection_min", zone[1]>>, <<"detection_max", zone[2]>>}

\* C27: the lane closure an rsu_spoofing step invokes evaluates its detection
\* zone with the zone bounds handed to rsu_spoofing: the closure commands of
\* the step are those of lane_closure called with detection_min, detection_max
\* = zone, for every zone.
C27_SharedZone ==
    [][(pc = "policy" /\ policy = "rsu_spoofing" /\ time >= params.lane_close_t) =>
         LET n == Len(MaxSpeedCmds(cmds'))
         IN  SubSeq(cmds', n + 1, Len(cmds'))
               = lane_closure(state, WithZone(params.lc_kwargs, params.zone)).cmds]_vars

\* The explicit ids of the rear_end_collision call under drive.
Listed ==
    IF params.target_vehicles.kind = "str" THEN {params.target_vehicles.val}
    ELSE IF params.target_vehicles.kind = "list" THEN Range(params.target_vehicles.val)
    ELSE {}

\* The targets of a step: the explicit ids, the same in every step, when
\* given; else the vehicles of the current live set whose type id contains
\* the substring.
Targets ==
    IF params.target_vehicles.kind # "none" THEN Listed
    ELSE {v \in live : Contains(params.target_type.val, TypeID[v])}

\* The attack commands of rear_end_collision for vehicle v.
AttackCmds(v) ==
    {Cmd("setSpeedMode", v, 0, 0, 1), Cmd("setLaneChangeMode", v, 0, 0, 1),
     Cmd("setAcceleration", v, params.aggressive_accel, 1, 1)}

\* C28: in every rear_end_collision step each target that is present and
\* whose completion flag is not yet true is sent the safety-disable and the
\* acceleration command; with type-substring selection the targets are the
\* matching vehicles of this step's live set (a vehicle entering at step k is
\* attacked from step k on), with explicit ids they are the listed vehicles.
C28_TargetingOverTime ==
    [][(pc = "policy" /\ policy = "rear_end"
            /\ SelectionError(params.target_vehicles, params.target_type) = "none") =>
         \A v \in Targets : (v \in live /\ v \notin state.map_true) =>
             AttackCmds(v) \subseteq Range(cmds')]_vars

\* C29: with explicit ids, a call that finds a listed, unfinished vehicle
\* absent from the live set leaves that vehicle's flag true; and a listed
\* vehicle that is absent at the first attack step is not sent any command
\* in the rest of the run, also after it has entered.
C29_AbsentListedNeverAttacked ==
    /\ [][(pc = "policy" /\ policy = "rear_end"
              /\ params.target_vehicles.kind # "none") =>
             \A v \in Listed : (v \notin live /\ v \notin state.map_true) =>
                 v \in state'.map_true]_vars
    /\ \A v \in Vehicles :
          []((policy = "rear_end" /\ v \in Listed /\ time = 1 /\ v \notin live)
                => [](CmdsTo(cmds, v) = <<>>))

\* C30: an rsu_spoofing step sends no setMaxSpeed to a vehicle that is not
\* strictly inside the zone, none at all at a time that no schedule entry
\* (t0, t1] holds, and never a value other than a schedule entry's converted
\* speed: nothing restores the cap of a vehicle that was pinned earlier, so
\* the pinned value stays after the vehicle leaves the zone and after the
\* schedule has ended.
C30_NoCapRestore ==
    [][(pc = "policy" /\ policy = "rsu_spoofing") =>
         LET ms == MaxSpeedCmds(cmds')
             sched == params.vsl_sched
         IN  /\ \A v \in Vehicles :
                   (v \notin live \/ pos[v] <= params.zone[1] \/ pos[v] >= params.zone[2])
                       => CmdsTo(ms, v) = <<>>
             /\ (\A i \in 1..Len(sched) : ~(sched[i][1] < time /\ time <= sched[i][2]))
                   => ms = <<>>
             /\ \A k \in 1..Len(ms) :
                   \E i \in 1..Len(sched) : IsMph(ms[k].a, sched[i][3])]_vars

\* A step at a time inside a schedule entry, due for the lane closure, that
\* pinned 'ego' in the zone and sent 'v2', present at the far end of the
\* zone on the closed lane, closure commands but no max speed.
C30_Witness ==
    /\ policy = "rsu_spoofing" /\ Called /\ time >= params.lane_close_t
    /\ Inside(params.vsl_sched, time) # {}
    /\ {"ego", "v2"} \subseteq live
    /\ pos["ego"] = 1 /\ pos["v2"] = params.zone[2]
    /\ CmdsTo(MaxSpeedCmds(cmds), "ego") # <<>>
    /\ CmdsTo(MaxSpeedCmds(cmds), "v2") = <<>>
    /\ CmdsTo(cmds, "v2") # <<>>

\* A step after the schedule has ended, with 'ego' still in the zone: no
\* max speed is sent.
C30_AfterSchedule ==
    /\ policy = "rsu_spoofing" /\ Called /\ time = MaxTime
    /\ params.vsl_sched = << <<1, 2, 4>> >>
    /\ "ego" \in live /\ pos["ego"] = 1
    /\ MaxSpeedCmds(cmds) = <<>>

\* The entries of a schedule that apply at time t: t0 < t <= t1.
Applying(sched, t) == {i \in 1..Len(sched) : sched[i][1] < t /\ t <= sched[i][2]}

\* A schedule of adjacent entries: each entry starts where the one before ends.
Adjacent(sched) ==
    /\ \A i \in 1..Len(sched) : sched[i][1] < sched[i][2]
    /\ \A i \in 1..(Len(sched) - 1) : sched[i][2] = sched[i + 1][1]

\* C32: in an rsu_spoofing step at time t a schedule entry (t0, t1, v) is
\* applied exactly when t0 < t <= t1: _vsl_step is called once per such entry
\* and a vehicle in the zone is sent exactly those entries' speeds. With
\* adjacent entries at most one applies, at the shared boundary t = t1 of one
\* entry = t0 of the next only the earlier one, and an entry that starts at
\* 0 does not apply at time 0.
C32_ScheduleBoundaries ==
    [][(pc = "policy" /\ policy = "rsu_spoofing") =>
         LET sched == params.vsl_sched
             app == Applying(sched, time)
             steps == SelectSeq(calls', LAMBDA c : c = "_vsl_step")
             at0 == RsuAt(state, 0, sched, params.lane_close_t, params.zone,
                          params.lc_kwargs)
         IN  /\ Len(steps) = Cardinality(app)
             /\ \A v \in RsuPinned :
                   LET ms == CmdsTo(MaxSpeedCmds(cmds'), v)
                   IN  /\ Len(ms) = Cardinality(app)
                       /\ \A i \in app : \E k \in 1..Len(ms) : IsMph(ms[k].a, sched[i][3])
             /\ Adjacent(sched) =>
                   /\ Cardinality(app) <= 1
                   /\ \A i \in 1..(Len(sched) - 1) :
                         time = sched[i][2] => app = {i}
             /\ (\A i \in 1..Len(sched) : sched[i][1] >= 0) =>
                   ("_vsl_step" \notin Range(at0.calls) /\ MaxSpeedCmds(at0.cmds) = <<>>)]_vars

\* A step at the boundary time of two adjacent entries, the first starting
\* at 0: 'ego', in the zone, was sent the earlier entry's speed and no other.
C32_Witness ==
    /\ policy = "rsu_spoofing" /\ Called /\ time = 1
    /\ params.vsl_sched = << <<0, 1, 2>>, <<1, MaxTime, 4>> >>
    /\ "ego" \in live /\ pos["ego"] = 1
    /\ Len(CmdsTo(MaxSpeedCmds(cmds), "ego")) = 1
    /\ IsMph(CmdsTo(MaxSpeedCmds(cmds), "ego")[1].a, 2)

---------------------------------------------------------------------------
\* Properties of the runner (checked under RunnerSpec).

\* C8: every configuration error is raised before any session is opened.
C8_ConfigErrorsBeforeSession ==
    err \in ConfigErrors => started = 0

\* C9: at most one session is open at any time, and none is left open when
\* the runner has exited, normally or by an error.
C9_SessionReleased ==
    /\ sessions <= 1
    /\ pc \in {"done", "crashed"} => sessions = 0

\* C10: in a run whose mode is the configured attack type, every step invokes
\* the policy function of that type exactly once, for every registry key.
C10_PolicyInvokedEachStep ==
    (pc = "sample" /\ Mode = cfg.type) => invoked = 1

\* The errors of a call whose arguments do not fit the function's parameters.
BindErrors == {MissingArgError, UnexpectedArgError}

\* C11: every policy call the runner makes, with exactly the arguments the
\* runner passes, is accepted and runs: no call ends in an error about a
\* parameter that was not supplied or not expected (the selection error of
\* rear_end_collision is the one parameter-related error allowed).
C11_CallsAccepted ==
    /\ err \notin BindErrors
    /\ (pc = "sample" /\ Mode = cfg.type /\ cfg.type \in DispatchBranches) => invoked = 1

\* Inside the step loop of a run.
InRun == pc \in {"test", "dispatch", "sample"}

\* C12: in a run whose mode is not the configured attack type no policy is
\* invoked, no vehicle command is sent (the samplers only read) and the
\* attack state stays empty for the whole run.
C12_BaselineFrame ==
    (InRun /\ Mode # cfg.type) =>
        (cmds = <<>> /\ invoked = 0 /\ calls = <<>> /\ state = EmptyState)

\* A baseline run of a rear-end scenario in its second step or later, with a
\* vehicle of the attacked type present and a row sampled.
C12_Witness ==
    /\ pc = "test" /\ time >= 2 /\ Mode = "base"
    /\ cfg.type = "rear_end" /\ cfg.target_type.kind = "str"
    /\ "ego" \in live /\ rows.brake # <<>>
    /\ cmds = <<>> /\ state = EmptyState

\* All rows of the three accumulators.
AllRows(rs) == UNION {{rs[k][i] : i \in 1..Len(rs[k])} : k \in DOMAIN rs}

\* C13: every (mode, seed) run starts with an empty attack state and empty
\* row accumulators, whatever the run before left behind, and inside a run
\* the accumulators hold only rows sampled in this run: tagged with its mode
\* and seed and with a time of this run. This holds as well for a second run
\* with the same mode and seed.
C13_RunIsolation ==
    [][/\ pc = "start" => (state' = EmptyState /\ rows' = EmptyRows)
       /\ pc' \in {"test", "dispatch", "sample"} =>
             \A r \in AllRows(rows') :
                 /\ r.mode = Modes(cfg')[run'[1]] /\ r.seed = run'[2]
                 /\ r.t \in 1..time']_vars

\* The second run of a mode and seed is about to start while the variables
\* still hold the completion flags and the rows the first run wrote.
C13_Witness ==
    /\ pc = "start" /\ run = <<2, 1>>
    /\ Modes(cfg) = <<"rear_end", "rear_end">>
    /\ state.map_true # {} /\ rows.coll # <<>>

HardBraking == {v \in live : 2 * accel[v] < -9}

\* The rows from position n + 1 on.
From(seq, n) == SubSeq(seq, n + 1, Len(seq))

C22_BrakeRowsKept ==
    /\ pc = "start" /\ run[1] = 2
    /\ \E i, j \in 1..Len(written.brake) : written.brake[i].t < written.brake[j].t

\* C23: the detector table holds one row per detector for each step whose
\* 1-based index is a multiple of the configured N and no other row: after K
\* steps it holds floor(K / N) rows per detector, N being the value the
\* configuration gives.
C23_DetectorDecimation ==
    (pc = "test" /\ sessions = 1 /\ cfg.end_time.kind = "num") =>
        Len(rows.det) = (step_counter \div cfg.det_every) * Len(LaneIds)

\* The run after run r in the mode loop (outer) and the seed loop (inner).
After(r) == IF r[2] < cfg.seed_count THEN <<r[1], r[2] + 1>> ELSE <<r[1] + 1, 1>>

\* C31: with every advance adding one step to the time, the step loop of a
\* run goes on exactly while time < end_time and so is left at the first
\* step whose time is >= end_time; the session is then closed and the three
\* tables are persisted; the runs are taken in the order of the run matrix,
\* one session each, and unless an operation fails the runner comes to its
\* end with every (mode, seed) entry of the matrix run exactly once.
C31_RunTermination ==
    /\ [][ /\ (InRun /\ time' = time + 1) => time < cfg.end_time.val
           /\ (pc = "test" /\ pc' \in {"start", "done"}) =>
                 ( /\ time >= cfg.end_time.val
                   /\ (time >= 1 => time - 1 < cfg.end_time.val)
                   /\ sessions' = 0 /\ written' = rows
                   /\ run' = (IF pc' = "done" THEN run ELSE After(run)) )
           /\ (pc = "start" /\ pc' = "test") =>
                 (run' = run /\ started' = started + 1 /\ sessions' = 1)
           /\ (run' # run /\ pc # "load") => (pc = "test" /\ pc' = "start")
           /\ (pc' = "done") =>
                 ( /\ run = <<Len(Modes(cfg)), cfg.seed_count>>
                   /\ started = Len(Modes(cfg)) * cfg.seed_count ) ]_vars
    /\ <>(pc = "done" \/ err # "none")

\* The runner at its end after a matrix of two modes and MaxSeeds seeds, the
\* last run persisted with the rows of its last step.
C31_Witness ==
    /\ pc = "done" /\ err = "none" /\ sessions = 0
    /\ cfg.seed_count = MaxSeeds /\ Len(Modes(cfg)) = 2
    /\ started = 2 * MaxSeeds
    /\ \E i \in 1..Len(written.coll) : written.coll[i].t = cfg.end_time.val

====
